---------------------------- MODULE Spec2Model ----------------------------
(* A model of the front-end data model of the rigging compiler:             *)
(*   - parser/location.rs : SourceLocation and the Located<T> wrapper,     *)
(*   - parser/errors.rs   : the ParserError taxonomy, is_fatal and msg,    *)
(*   - abstractions.rs    : the interning entry points over IString.       *)
(* Each component has its own specification over its own variables.        *)
EXTENDS Naturals, Sequences, FiniteSets, TLC

VARIABLES node, last, errlog, table, calls, unit

vars == <<node, last, errlog, table, calls, unit>>

(* ------------------------------ bounds --------------------------------- *)

\* Nesting depth of the SourceLocation trees that are enumerated.
MaxDepth == 1
\* Bare values of the payload type T are 0..MaxVal.
MaxVal == 1
\* Number of calls recorded on a ParserError log.
MaxErrCalls == 2
\* Number of calls recorded on the interner log.
MaxCalls == 3
\* Nesting depth of the wrapper forms around an AST node.
MaxWrap == 2
\* Size of a Definitions value: its groups plus their definitions.
MaxUnit == 5

(* --------------------- results of trait resolution --------------------- *)

\* A call that resolves to an implementation and returns v.
Ok(v) == [ok |-> TRUE, val |-> v]
\* A call for which the source holds no implementation (rejected by rustc).
NoImpl == [ok |-> FALSE]

(* ------------------- SourceLocation (location.rs:23) ------------------- *)

Unknown == [tag |-> "Unknown"]
Unique(id, inner) == [tag |-> "Unique", id |-> id, inner |-> inner]
Generated(inner) == [tag |-> "Generated", inner |-> inner]
Hint(text, primary, secondary) ==
  [tag |-> "Hint", text |-> text, primary |-> primary, secondary |-> secondary]
Span(range) == [tag |-> "Span", span |-> range]

\* The payloads the enumerated locations are built from.
Spans == {<<10, 11>>}
UniqueIds == {7}
HintTexts == {"doc"}

RECURSIVE SourceLocations(_)
SourceLocations(d) ==
  IF d = 0
  THEN {Unknown} \cup {Span(s) : s \in Spans}
  ELSE LET P == SourceLocations(d - 1)
       IN  P \cup {Unique(i, l) : i \in UniqueIds, l \in P}
             \cup {Generated(l) : l \in P}
             \cup {Hint(t, a, b) : t \in HintTexts, a \in P, b \in P}

SourceLocation == SourceLocations(MaxDepth)

\* #[default] is on the Unknown variant.
SourceLocationDefault == Unknown

\* #[derive(PartialEq)] on SourceLocation: same variant, then field by field.
RECURSIVE SourceLocationEq(_, _)
SourceLocationEq(a, b) ==
  IF a.tag # b.tag THEN FALSE
  ELSE CASE a.tag = "Unknown"   -> TRUE
         [] a.tag = "Unique"    -> a.id = b.id /\ SourceLocationEq(a.inner, b.inner)
         [] a.tag = "Generated" -> SourceLocationEq(a.inner, b.inner)
         [] a.tag = "Hint"      -> /\ a.text = b.text
                                   /\ SourceLocationEq(a.primary, b.primary)
                                   /\ SourceLocationEq(a.secondary, b.secondary)
         [] a.tag = "Span"      -> a.span[1] = b.span[1] /\ a.span[2] = b.span[2]

(* ---------------------- Located<T> (location.rs:40) -------------------- *)

\* The bare values of T.
Values == 0 .. MaxVal

Located == [location : SourceLocation, value : Values]

\* impl From<(T, SourceLocation)> for Located<T>
FromPairDropsLocation(pair) == [location |-> SourceLocationDefault, value |-> pair[1]]
FromPair(pair) == [location |-> pair[2], value |-> pair[1]]

\* impl From<T> for Located<T>
FromValueGenerated(value) == [location |-> Generated(Unknown), value |-> value]
FromValue(value) == [location |-> SourceLocationDefault, value |-> value]

\* The functions handed to Located::map.
Functions == {"id", "succ", "zero"}
Apply(f, v) ==
  CASE f = "id"   -> v
    [] f = "succ" -> v + 1
    [] f = "zero" -> 0
    [] f = "rename" -> [v EXCEPT !.name = "renamed"]
    [] f = "relocate_inner" ->
         [v EXCEPT !.inner.boxed.location = Generated(v.inner.boxed.location)]

\* Located::map
LocatedMapResetsLocation(self, f) ==
  [location |-> SourceLocationDefault, value |-> Apply(f, self.value)]
LocatedMap(self, f) == [location |-> self.location, value |-> Apply(f, self.value)]

\* #[derive(PartialEq)] on Located<T>: location, then value.
LocatedEqValueOnly(a, b) == a.value = b.value
LocatedEq(a, b) == SourceLocationEq(a.location, b.location) /\ a.value = b.value

\* impl PartialEq<T> for Located<T>
LocatedEqBareStrict(self, other) ==
  self.value = other /\ SourceLocationEq(self.location, SourceLocationDefault)
LocatedEqBare(self, other) == self.value = other

\* The PartialEq implementations of the source, as <<Self, Rhs>>.
PartialEqImpls ==
  { <<"SourceLocation", "SourceLocation">>,
    <<"Located", "Located">>,
    <<"Located", "T">>,
    <<"T", "T">> }

\* lhs == rhs, resolved as rustc resolves PartialEq<Rhs> for Self.
Compare(lk, lhs, rk, rhs) ==
  IF <<lk, rk>> \notin PartialEqImpls THEN NoImpl
  ELSE CASE lk = "SourceLocation" -> Ok(SourceLocationEq(lhs, rhs))
         [] lk = "Located" /\ rk = "Located" -> Ok(LocatedEq(lhs, rhs))
         [] lk = "Located" /\ rk = "T" -> Ok(LocatedEqBare(lhs, rhs))
         [] lk = "T" -> Ok(lhs = rhs)

\* x.hash(state) for a field of type ty: the data fed to the hasher.  T is
\* bound by T: Hash and feeds its value; SourceLocation derives no Hash.
FieldHash(ty, x) ==
  CASE ty = "T" -> Ok(<<x>>)
    [] ty = "SourceLocation" -> NoImpl

\* impl Hash for Located<T>: self.location.hash(state); self.value.hash(state)
LocatedHash(self) ==
  LET l == FieldHash("SourceLocation", self.location)
      v == FieldHash("T", self.value)
  IN  IF l.ok /\ v.ok THEN Ok(l.val \o v.val) ELSE NoImpl

(* ------------------------- Located: the actions ------------------------ *)

\* The operations that leave a node behind.  A comparison or a hash borrows
\* the node, returns its result and ends the run.
Building == last.op \in {"wrap", "wrap_at", "map"}

LocInit ==
  /\ \E t \in Values, loc \in SourceLocation :
       /\ node = FromPair(<<t, loc>>)
       /\ last = [op |-> "wrap_at", t |-> t, loc |-> loc]

Wrap ==
  \E t \in Values :
    /\ Building
    /\ node' = FromValue(t)
    /\ last' = [op |-> "wrap", t |-> t]
    /\ UNCHANGED <<errlog, table, calls, unit>>

WrapAt ==
  \E t \in Values, loc \in SourceLocation :
    /\ Building
    /\ node' = FromPair(<<t, loc>>)
    /\ last' = [op |-> "wrap_at", t |-> t, loc |-> loc]
    /\ UNCHANGED <<errlog, table, calls, unit>>

Map ==
  \E f \in Functions :
    /\ Building
    /\ node.value <= MaxVal
    /\ node' = LocatedMap(node, f)
    /\ last' = [op |-> "map", before |-> node, f |-> f]
    /\ UNCHANGED <<errlog, table, calls, unit>>

EqLocated ==
  \E other \in Located :
    /\ Building
    /\ last' = [op |-> "eq", lhs |-> node, rhs |-> other,
                out |-> Compare("Located", node, "Located", other)]
    /\ UNCHANGED <<node, errlog, table, calls, unit>>

EqBare ==
  \E u \in Values :
    /\ Building
    /\ last' = [op |-> "eq_bare", lhs |-> node, rhs |-> u,
                out |-> Compare("Located", node, "T", u)]
    /\ UNCHANGED <<node, errlog, table, calls, unit>>

BareEq ==
  \E u \in Values :
    /\ Building
    /\ last' = [op |-> "bare_eq", lhs |-> u, rhs |-> node,
                out |-> Compare("T", u, "Located", node)]
    /\ UNCHANGED <<node, errlog, table, calls, unit>>

HashNode ==
  /\ Building
  /\ last' = [op |-> "hash", self |-> node, out |-> LocatedHash(node)]
  /\ UNCHANGED <<node, errlog, table, calls, unit>>

\* impl Deref for Located<T>: &self.value
LocatedDeref(self) == self.value

\* impl DerefMut for Located<T>, followed by a store through the returned
\* &mut T: *located = v.
LocatedDerefMutStoreRelocates(self, v) == [location |-> SourceLocationDefault, value |-> v]
LocatedDerefMutStore(self, v) == [self EXCEPT !.value = v]

\* A node can be written through deref_mut again and again.
Writable == Building \/ last.op = "deref_mut"

Deref ==
  /\ Writable
  /\ last' = [op |-> "deref", self |-> node, out |-> LocatedDeref(node)]
  /\ UNCHANGED <<node, errlog, table, calls, unit>>

\* origin is the node as it was built, before the first write.
DerefMut ==
  \E v \in Values :
    /\ Writable
    /\ node' = LocatedDerefMutStore(node, v)
    /\ last' = [op |-> "deref_mut", before |-> node, v |-> v,
                origin |-> IF last.op = "deref_mut" THEN last.origin ELSE node]
    /\ UNCHANGED <<errlog, table, calls, unit>>

Init ==
  /\ LocInit
  /\ errlog = <<>>
  /\ table = <<>>
  /\ calls = <<>>
  /\ unit = <<>>

Next ==
  \/ Wrap
  \/ WrapAt
  \/ Map
  \/ EqLocated
  \/ EqBare
  \/ BareEq
  \/ HashNode
  \/ Deref
  \/ DerefMut

Spec == Init /\ [][Next]_vars

(* ------------------------- Located: the claims ------------------------- *)

\* C1: a Located built from a bare value t (From<T>) has location Unknown,
\* holds t, and compares equal to t under the value-only Located<T> == T.
C1_WrapUnknown ==
  last.op = "wrap" =>
    /\ node.location = Unknown
    /\ node.value = last.t
    /\ Compare("Located", node, "T", last.t) = Ok(TRUE)

C1_Witness == last.op = "wrap" /\ node.value = MaxVal

\* C2: a Located built from the pair (t, loc) (From<(T, SourceLocation)>)
\* has exactly the location loc and exactly the value t, for every variant
\* of loc, nested ones included.
C2_WrapAtPreserves ==
  last.op = "wrap_at" => node.location = last.loc /\ node.value = last.t

C2_Witness ==
  /\ last.op = "wrap_at"
  /\ node.location.tag = "Hint"
  /\ node.location.primary.tag = "Span"
  /\ node.value = MaxVal

\* C3: Located::map returns the location of its receiver unchanged and f
\* applied to the receiver's value; with the identity function the result is
\* strictly equal (location and value) to the receiver.
C3_MapPreservesLocation ==
  last.op = "map" =>
    /\ node.location = last.before.location
    /\ node.value = Apply(last.f, last.before.value)
    /\ last.f = "id" => Compare("Located", node, "Located", last.before) = Ok(TRUE)

C3_Witness ==
  /\ last.op = "map"
  /\ last.f = "succ"
  /\ last.before.location.tag = "Generated"
  /\ node.value # last.before.value

\* C4: Located == Located is strict: it holds iff the values are equal and
\* the locations are equal; equal values at different locations are unequal.
C4_StrictEquality ==
  last.op = "eq" =>
    last.out = Ok(last.lhs.value = last.rhs.value
                  /\ last.lhs.location = last.rhs.location)

C4_Witness ==
  /\ last.op = "eq"
  /\ last.lhs.value = last.rhs.value
  /\ last.lhs.location # last.rhs.location
  /\ last.out = Ok(FALSE)

\* C5 (as stated): Located<T> against a bare T is value-only in either
\* direction: both located == u and u == located hold exactly when the
\* located value equals u, whatever the location.
C5_EitherDirection ==
  /\ last.op = "eq_bare" => last.out = Ok(last.lhs.value = last.rhs)
  /\ last.op = "bare_eq" => last.out = Ok(last.rhs.value = last.lhs)

\* C5 (amended): Located<T> == T, with the Located on the left, is
\* value-only and holds exactly when the located value equals u, whatever the
\* location; the source has no implementation for T == Located<T>.
C5_LeftOnly ==
  /\ last.op = "eq_bare" => last.out = Ok(last.lhs.value = last.rhs)
  /\ last.op = "bare_eq" => last.out = NoImpl

C5_Witness ==
  /\ last.op = "eq_bare"
  /\ last.lhs.location.tag = "Unique"
  /\ last.out = Ok(TRUE)

\* C6: the hash of a Located feeds the hasher its location and then its
\* value, so strictly equal nodes feed equal data and nodes with equal
\* values at different locations feed different data.
C6_HashCoversLocation ==
  last.op = "hash" =>
    /\ last.out.ok
    /\ \A other \in Located :
         /\ LocatedEq(last.self, other) => LocatedHash(other) = last.out
         /\ (other.value = last.self.value /\ other.location # last.self.location)
              => LocatedHash(other) # last.out

(* --------------------- ParserError (errors.rs:17) ---------------------- *)

\* The characters a fault may carry.
Chars == {"x", "7", "{"}

UnterminatedStringLiteral == [kind |-> "UnterminatedStringLiteral"]
MalformedNumberLiteral(c) == [kind |-> "MalformedNumberLiteral", c |-> c]
UnrecognizedCharacter(c) == [kind |-> "UnrecognizedCharacter", c |-> c]
UnmatchedOpenBlock == [kind |-> "UnmatchedOpenBlock"]
UnmatchedCloseBlock == [kind |-> "UnmatchedCloseBlock"]
UnknownOperator == [kind |-> "UnknownOperator"]

ParserError ==
  {UnterminatedStringLiteral, UnmatchedOpenBlock, UnmatchedCloseBlock, UnknownOperator}
    \cup {MalformedNumberLiteral(c) : c \in Chars}
    \cup {UnrecognizedCharacter(c) : c \in Chars}

\* ParserError::is_fatal: the match has no wildcard arm.
is_fatal_number_too(self) ==
  CASE self.kind \in {"UnmatchedOpenBlock", "UnmatchedCloseBlock", "UnknownOperator"}
         -> FALSE
    [] self.kind \in {"MalformedNumberLiteral", "UnrecognizedCharacter",
                      "UnterminatedStringLiteral"}
         -> TRUE
is_fatal(self) ==
  CASE self.kind \in {"MalformedNumberLiteral", "UnmatchedOpenBlock",
                      "UnmatchedCloseBlock", "UnknownOperator"}
         -> FALSE
    [] self.kind \in {"UnrecognizedCharacter", "UnterminatedStringLiteral"}
         -> TRUE

\* write!(f, template, arg): the template is cut at its braces; "{{" and
\* "}}" are the escapes of a brace and "{}" is replaced by the argument.
RECURSIVE Write(_, _, _)
Write(f, template, arg) ==
  IF template = <<>> THEN f
  ELSE LET piece == Head(template)
           text  == CASE piece = "{{" -> "{"
                      [] piece = "}}" -> "}"
                      [] piece = "{}" -> arg
                      [] OTHER -> piece
       IN  Write(f \o text, Tail(template), arg)

\* The grave accent of the two block messages, a character that a string of
\* this notation cannot hold.
Grave == "<grave>"

\* The format string of each arm of ParserError::msg.
Template(self) ==
  CASE self.kind = "UnterminatedStringLiteral" -> <<"unterminated string literal">>
    [] self.kind = "MalformedNumberLiteral" ->
         <<"number literal is this base cannot contain ", "{}">>
    [] self.kind = "UnrecognizedCharacter" -> <<"unrecognized character ", "{}">>
    [] self.kind = "UnmatchedOpenBlock" -> <<"unmatched ", Grave, "{{", Grave>>
    [] self.kind = "UnmatchedCloseBlock" -> <<"unmatched ", Grave, "}}", Grave>>
    [] self.kind = "UnknownOperator" -> <<"unknown operator">>

\* The argument an arm hands to write!: the payload character, if any.
Payload(self) ==
  IF self.kind \in {"MalformedNumberLiteral", "UnrecognizedCharacter"}
  THEN self.c ELSE ""

\* ParserError::msg, writing to the formatter buffer f.
msg_without_payload(self, f) == Write(f, Template(self), "")
msg(self, f) == Write(f, Template(self), Payload(self))

\* impl Debug for ParserError
DebugFmt(self, f) == msg(self, f)

\* impl Display for ParserError
DisplayFmt(self, f) == msg(self, f)

(* ----------------------- ParserError: the actions ---------------------- *)

ErrInit ==
  /\ errlog = <<>>
  /\ node = FromValue(0)
  /\ last = [op |-> "wrap", t |-> 0]
  /\ table = <<>>
  /\ calls = <<>>
  /\ unit = <<>>

CallIsFatal ==
  \E e \in ParserError :
    /\ Len(errlog) < MaxErrCalls
    /\ errlog' = Append(errlog, [op |-> "is_fatal", e |-> e, out |-> is_fatal(e)])
    /\ UNCHANGED <<node, last, table, calls, unit>>

CallDisplay ==
  \E e \in ParserError :
    /\ Len(errlog) < MaxErrCalls
    /\ errlog' = Append(errlog, [op |-> "display", e |-> e, out |-> DisplayFmt(e, "")])
    /\ UNCHANGED <<node, last, table, calls, unit>>

CallDebug ==
  \E e \in ParserError :
    /\ Len(errlog) < MaxErrCalls
    /\ errlog' = Append(errlog, [op |-> "debug", e |-> e, out |-> DebugFmt(e, "")])
    /\ UNCHANGED <<node, last, table, calls, unit>>

ErrNext ==
  \/ CallIsFatal
  \/ CallDisplay
  \/ CallDebug

ErrSpec == ErrInit /\ [][ErrNext]_vars

(* ----------------------- ParserError: the claims ----------------------- *)

\* The calls of the log that rendered an error, through Display or Debug.
Renderings == {i \in 1 .. Len(errlog) : errlog[i].op \in {"display", "debug"}}

\* The text a rendering of the payload-free kinds is expected to give.
FixedText(kind) ==
  CASE kind = "UnterminatedStringLiteral" -> "unterminated string literal"
    [] kind = "UnmatchedOpenBlock" -> "unmatched " \o Grave \o "{" \o Grave
    [] kind = "UnmatchedCloseBlock" -> "unmatched " \o Grave \o "}" \o Grave
    [] kind = "UnknownOperator" -> "unknown operator"

\* C7: is_fatal answers for each of exactly six kinds, true for
\* UnterminatedStringLiteral and UnrecognizedCharacter(c) and false for the
\* other four, whatever the payload character and whatever was called before.
C7_IsFatalTable ==
  /\ Cardinality({e.kind : e \in ParserError}) = 6
  /\ \A i \in 1 .. Len(errlog) :
       errlog[i].op = "is_fatal" =>
         /\ errlog[i].out \in BOOLEAN
         /\ errlog[i].out
              <=> errlog[i].e.kind \in {"UnterminatedStringLiteral", "UnrecognizedCharacter"}
         /\ \A j \in 1 .. Len(errlog) :
              (errlog[j].op = "is_fatal" /\ errlog[j].e.kind = errlog[i].e.kind)
                => errlog[j].out = errlog[i].out

C7_Witness ==
  /\ Len(errlog) = 2
  /\ errlog[1] = [op |-> "is_fatal", e |-> UnrecognizedCharacter("x"), out |-> TRUE]
  /\ errlog[2].op = "is_fatal"
  /\ errlog[2].e = MalformedNumberLiteral("x")
  /\ errlog[2].out = FALSE

\* C8: every error renders to one fixed text that depends only on its kind
\* and payload character: Display and Debug agree, a repeated rendering gives
\* the same text, different errors give different texts, and the text of
\* MalformedNumberLiteral(c) and UnrecognizedCharacter(c) ends with c.
C8_FixedMessages ==
  \A i \in Renderings :
    /\ \A j \in Renderings :
         (errlog[i].e = errlog[j].e) <=> (errlog[i].out = errlog[j].out)
    /\ errlog[i].e.kind = "MalformedNumberLiteral" =>
         errlog[i].out = "number literal is this base cannot contain " \o errlog[i].e.c
    /\ errlog[i].e.kind = "UnrecognizedCharacter" =>
         errlog[i].out = "unrecognized character " \o errlog[i].e.c
    /\ errlog[i].e.kind \notin {"MalformedNumberLiteral", "UnrecognizedCharacter"} =>
         errlog[i].out = FixedText(errlog[i].e.kind)

C8_Witness ==
  /\ Len(errlog) = 2
  /\ errlog[1].op = "display"
  /\ errlog[2].op = "debug"
  /\ errlog[1].e = MalformedNumberLiteral("x")
  /\ errlog[2].e = MalformedNumberLiteral("x")
  /\ errlog[1].out = "number literal is this base cannot contain x"
  /\ errlog[2].out = errlog[1].out

(* ------------------- the interner (abstractions.rs:24) ----------------- *)

\* The texts that are interned, as sequences of characters.
Texts == {<<>>, <<"a">>, <<"a", "b">>, <<"O", "p">>}

\* An owned String and a borrowed &str holding the characters cs.
String(cs) == [ty |-> "String", chars |-> cs]
Str(cs) == [ty |-> "str", chars |-> cs]

\* text.into() for S: Into<String>: a String is moved as it is, a &str is
\* copied character by character into a new String.
Into(text) ==
  IF text.ty = "String" THEN text
  ELSE String([i \in 1 .. Len(text.chars) |-> text.chars[i]])

\* IString::from(String): the canonicalization table of the interning
\* backend maps every text to one handle, the position at which the text was
\* first entered; a text not yet in the table is appended to it.
IStringFrom(tbl, text) ==
  IF \E i \in 1 .. Len(tbl) : tbl[i] = text.chars
  THEN [table |-> tbl,
        atom  |-> CHOOSE i \in 1 .. Len(tbl) : tbl[i] = text.chars]
  ELSE [table |-> Append(tbl, text.chars), atom |-> Len(tbl) + 1]

\* atom.to_string(): the text the handle stands for.
AtomToString(tbl, atom) == String(tbl[atom])

\* interned_string(text: String)
interned_string(tbl, text) == IStringFrom(tbl, text)

\* interned(text: S) where S: Into<String>
interned(tbl, text) == IStringFrom(tbl, Into(text))

\* interned_static(text: &'static str)
interned_static_literal(tbl, text) == interned(tbl, Str(<<"t", "e", "x", "t">>))
interned_static(tbl, text) == interned(tbl, text)

\* resolve(atom: IString)
resolve(tbl, atom) == AtomToString(tbl, atom)

(* ------------------------ the interner: actions ------------------------ *)

InternInit ==
  /\ table = <<>>
  /\ calls = <<>>
  /\ unit = <<>>
  /\ errlog = <<>>
  /\ node = FromValue(0)
  /\ last = [op |-> "wrap", t |-> 0]

\* One call of an entry point: the table it leaves and the handle it returns.
Record(entry, text, r) ==
  /\ table' = r.table
  /\ calls' = Append(calls, [op |-> "intern", entry |-> entry,
                             text |-> text.chars, atom |-> r.atom])
  /\ UNCHANGED <<node, last, errlog, unit>>

CallInternedString ==
  \E cs \in Texts :
    /\ Len(calls) < MaxCalls
    /\ Record("interned_string", String(cs), interned_string(table, String(cs)))

CallInterned ==
  \E cs \in Texts, ty \in {"String", "str"} :
    /\ Len(calls) < MaxCalls
    /\ Record("interned", [ty |-> ty, chars |-> cs],
              interned(table, [ty |-> ty, chars |-> cs]))

CallInternedStatic ==
  \E cs \in Texts :
    /\ Len(calls) < MaxCalls
    /\ Record("interned_static", Str(cs), interned_static(table, Str(cs)))

CallResolve ==
  \E i \in 1 .. Len(calls) :
    /\ Len(calls) < MaxCalls
    /\ calls[i].op = "intern"
    /\ calls' = Append(calls, [op |-> "resolve", atom |-> calls[i].atom,
                               out |-> resolve(table, calls[i].atom)])
    /\ UNCHANGED <<table, node, last, errlog, unit>>

InternNext ==
  \/ CallInternedString
  \/ CallInterned
  \/ CallInternedStatic
  \/ CallResolve

InternSpec == InternInit /\ [][InternNext]_vars

(* ------------------------ the interner: claims ------------------------- *)

Interns == {i \in 1 .. Len(calls) : calls[i].op = "intern"}
Resolves == {i \in 1 .. Len(calls) : calls[i].op = "resolve"}

\* C9: interning round-trips and is canonical: resolving the handle of a
\* text gives that text, and two interned texts have equal handles iff the
\* texts are equal, whichever of interned_string, interned and interned_static
\* produced each handle.
C9_InternRoundTrip ==
  /\ \A i \in Interns, j \in Interns :
       (calls[i].atom = calls[j].atom) <=> (calls[i].text = calls[j].text)
  /\ \A i \in Interns : resolve(table, calls[i].atom) = String(calls[i].text)
  /\ \A r \in Resolves, i \in Interns :
       calls[i].atom = calls[r].atom => calls[r].out = String(calls[i].text)

C9_Witness ==
  /\ Len(calls) = 3
  /\ calls[1].op = "intern" /\ calls[1].entry = "interned_string"
  /\ calls[2].op = "intern" /\ calls[2].entry = "interned_static"
  /\ calls[1].text = <<"O", "p">>
  /\ calls[2].text = <<"O", "p">>
  /\ calls[1].atom = calls[2].atom
  /\ calls[3].op = "resolve"
  /\ calls[3].out = String(<<"O", "p">>)

(* ----------------------- Located: deref, deref_mut --------------------- *)

\* C16: a read through deref returns exactly the stored value, and any
\* sequence of writes through deref_mut changes only the value: the location
\* stays the one the node was built with.
C16_DerefValueOnly ==
  /\ last.op = "deref" => last.out = node.value /\ node = last.self
  /\ last.op = "deref_mut" =>
       /\ node.value = last.v
       /\ node.location = last.before.location
       /\ node.location = last.origin.location

C16_Witness ==
  /\ last.op = "deref_mut"
  /\ last.before # last.origin
  /\ last.origin.location.tag = "Hint"
  /\ node.value # last.origin.value

(* ------------------------ the AST families (ast.rs) -------------------- *)

\* The variants of each enum, by name.
Variants ==
  [ FunctionClause |-> {"Private", "Attribute", "Documentation", "Clause"},
    TypeUnion |-> {"Private", "Attribute", "Documentation", "TypeIdentifier",
                   "AnonymousRecord"},
    MappingClause |-> {"Attribute", "Documentation", "Bidirectional",
                       "ForwardsDeprecated", "Forwards", "Backwards"},
    ScatteredDefinition |->
      {"Function", "FunctionClause", "Enumeration", "EnumerationMember",
       "Variant", "UnionClause", "Mapping", "MapClause", "End"},
    Definition |->
      {"TypeDefinition", "Constraint", "FunctionDefinition", "MappingDefinition",
       "Implementation", "ValueDefinition", "Overload", "Fixity", "ValueSpec",
       "OutcomeSpec", "Instantiation", "DefaultTypingSpec", "ScatteredDefinition",
       "Measure", "LoopMeasures", "Register", "Pragma", "Private", "Attribute",
       "Documentation", "InternalMutRec"},
    Expression |->
      {"Block", "Identifier", "Reference", "Dereference", "Literal", "Typed",
       "Application", "InfixApplication", "Infix", "Tuple", "If", "Loop", "For",
       "Vector", "VectorAccess", "VectorSubrange", "VectorUpdate",
       "VectorUpdateSubrange", "VectorAppend", "List", "Cons", "Struct",
       "StructUpdate", "Field", "Match", "Let", "Assign", "Sizeof", "Constraint",
       "Exit", "Throw", "Try", "Return", "Assert", "Variable", "Attribute",
       "InternalPlet", "InternalReturn", "InternalAssume"} ]

Families == DOMAIN Variants

\* The three cross-cutting wrapper forms.
WrapperForms == {"Private", "Attribute", "Documentation"}

\* Box<T>: the owned indirection of a recursive field.
Box(x) == [boxed |-> x]
Unbox(b) == b.boxed

\* One plain (non-wrapper) node of each family, named by an identifier.
Leaf(family) ==
  [family |-> family,
   variant |-> CASE family = "FunctionClause" -> "Clause"
                 [] family = "TypeUnion" -> "TypeIdentifier"
                 [] family = "MappingClause" -> "Forwards"
                 [] family = "ScatteredDefinition" -> "Enumeration"
                 [] family = "Definition" -> "Pragma"
                 [] family = "Expression" -> "Identifier",
   name |-> "Op"]

\* family::form(.., Box::new(inner)): Private(Box<Located<F>>),
\* Attribute(String, Option<LocatedAttributeData>, Box<Located<F>>) and
\* Documentation(String, Box<Located<F>>).  A family without the variant has
\* no such constructor.
WrapperAlwaysPrivate(family, form, inner) ==
  IF form \notin Variants[family] THEN NoImpl
  ELSE Ok([family |-> family, variant |-> "Private", inner |-> Box(inner)])
WrapperRelocatesInner(family, form, inner) ==
  IF form \notin Variants[family] THEN NoImpl
  ELSE Ok([family |-> family, variant |-> form,
           name |-> IF form = "Attribute" THEN "deprecated" ELSE "doc",
           data |-> "None",
           inner |-> Box([inner EXCEPT !.location = SourceLocationDefault])])
Wrapper(family, form, inner) ==
  IF form \notin Variants[family] THEN NoImpl
  ELSE CASE form = "Private" ->
              Ok([family |-> family, variant |-> form, inner |-> Box(inner)])
         [] form = "Attribute" ->
              Ok([family |-> family, variant |-> form, name |-> "deprecated",
                  data |-> "None", inner |-> Box(inner)])
         [] form = "Documentation" ->
              Ok([family |-> family, variant |-> form, name |-> "doc",
                  inner |-> Box(inner)])

\* match located.value { F::form(.., inner) => *inner }
Unwrap(located) == Unbox(located.value.inner)

\* The number of wrapper forms around the plain node.
RECURSIVE WrapDepth(_)
WrapDepth(located) ==
  IF located.value.variant \in WrapperForms THEN 1 + WrapDepth(Unwrap(located)) ELSE 0

\* The locations given to wrapper nodes.
WrapperLocations == SourceLocations(0)

(* ------------------------- the AST: the actions ------------------------ *)

AstInit ==
  /\ \E family \in Families, loc \in SourceLocation :
       /\ node = FromPair(<<Leaf(family), loc>>)
       /\ last = [op |-> "leaf", family |-> family]
  /\ errlog = <<>>
  /\ table = <<>>
  /\ calls = <<>>
  /\ unit = <<>>

\* A node is wrapped while it is the result of a construction.
Nesting == last.op \in {"leaf", "wrapper"} /\ (last.op = "wrapper" => last.out.ok)

WrapNode ==
  \E form \in WrapperForms, loc \in WrapperLocations :
    /\ Nesting
    /\ WrapDepth(node) < MaxWrap
    /\ LET r == Wrapper(node.value.family, form, node)
       IN  /\ node' = IF r.ok THEN FromPair(<<r.val, loc>>) ELSE node
           /\ last' = [op |-> "wrapper", family |-> node.value.family,
                       form |-> form, inner |-> node, out |-> r]
    /\ UNCHANGED <<errlog, table, calls, unit>>

UnwrapNode ==
  /\ last.op = "wrapper"
  /\ last.out.ok
  /\ node' = Unwrap(node)
  /\ last' = [op |-> "unwrap", wrapper |-> node, inner |-> last.inner]
  /\ UNCHANGED <<errlog, table, calls, unit>>

MapWrapper ==
  \E f \in {"id", "rename", "relocate_inner"} :
    /\ last.op = "wrapper"
    /\ last.out.ok
    /\ last.form = "Attribute"
    /\ node' = LocatedMap(node, f)
    /\ last' = [op |-> "map_wrapper", before |-> node, f |-> f, inner |-> last.inner]
    /\ UNCHANGED <<errlog, table, calls, unit>>

AstNext ==
  \/ WrapNode
  \/ UnwrapNode
  \/ MapWrapper

AstSpec == AstInit /\ [][AstNext]_vars

(* -------------------------- the AST: the claims ------------------------ *)

\* C11 (as stated): each of FunctionClause, MappingClause, TypeUnion,
\* ScatteredDefinition and Definition offers all three wrapper forms Private,
\* Attribute and Documentation around a located node of the same family.
C11_AllFamiliesAllForms ==
  (last.op = "wrapper"
     /\ last.family \in {"FunctionClause", "MappingClause", "TypeUnion",
                         "ScatteredDefinition", "Definition"})
    => last.out.ok

\* C11 (amended): FunctionClause, TypeUnion and Definition offer all three
\* wrapper forms, MappingClause offers Attribute and Documentation but not
\* Private, and ScatteredDefinition offers none; an offered form wraps a
\* located node of the same family, unchanged, and nests to any depth.
C11_WrapperForms ==
  last.op = "wrapper" =>
    /\ last.family \in {"FunctionClause", "TypeUnion", "Definition"} => last.out.ok
    /\ last.family = "MappingClause" => (last.out.ok <=> last.form # "Private")
    /\ last.family = "ScatteredDefinition" => ~last.out.ok
    /\ last.out.ok =>
         /\ node.value.family = last.family
         /\ node.value.variant = last.form
         /\ Unwrap(node) = last.inner
         /\ Unwrap(node).value.family = last.family
         /\ WrapDepth(node) = WrapDepth(last.inner) + 1

C11_Witness ==
  /\ last.op = "wrapper"
  /\ last.family = "Definition"
  /\ node.value.variant = "Private"
  /\ Unwrap(node).value.variant = "Documentation"
  /\ WrapDepth(node) = 2

\* C13: an attribute wrapper is transparent to the provenance of its
\* payload: unwrapping Expression::Attribute(name, None, inner) gives the
\* inner node with its own location and value, whatever the location of the
\* wrapper, and Located::map over the wrapper leaves the inner location alone
\* unless the mapped function changes it.
C13_AttributeTransparent ==
  /\ (last.op = "unwrap" /\ last.wrapper.value.variant = "Attribute") =>
       /\ node.location = last.inner.location
       /\ node.value = last.inner.value
  /\ last.op = "map_wrapper" =>
       /\ node.location = last.before.location
       /\ last.f \in {"id", "rename"} => Unwrap(node) = last.inner
       /\ last.f = "relocate_inner" =>
            Unwrap(node) = [last.inner EXCEPT !.location = Generated(last.inner.location)]

C13_Witness ==
  /\ last.op = "unwrap"
  /\ last.wrapper.value.family = "Expression"
  /\ last.wrapper.value.variant = "Attribute"
  /\ last.wrapper.location.tag = "Span"
  /\ node.location.tag = "Hint"
  /\ node = FromPair(<<Leaf("Expression"), node.location>>)

(* --------------------- lexer results (lexer.rs:4) ---------------------- *)

\* The tokens a lexer result may carry.
Tokens == {"ident", "number"}

\* SpannedToken = codemap::Spanned<Token>: a token and its span.
SpannedToken(token, span) == [node |-> token, span |-> span]

\* LexerResult = Result<SpannedToken, LocatedParseError>
LexOk(spanned) == [tag |-> "Ok", val |-> spanned]
LexErrUnlocated(located) == [tag |-> "Err", err |-> FromValue(located.value)]
LexErr(located) == [tag |-> "Err", err |-> located]

(* ---------------------- lexer results: the actions --------------------- *)

\* The first fault is one a tokenizer reports, at a span of the source text.
FaultInit ==
  /\ \E e \in ParserError, loc \in {Span(sp) : sp \in Spans} :
       /\ node = FromPair(<<e, loc>>)
       /\ last = [op |-> "fault_at", e |-> e, loc |-> loc,
                  result |-> LexErr(FromPair(<<e, loc>>))]
  /\ errlog = <<>>
  /\ table = <<>>
  /\ calls = <<>>
  /\ unit = <<>>

\* Err(Located::from((e, loc)))
FaultAt ==
  \E e \in ParserError, loc \in SourceLocation :
    /\ node' = FromPair(<<e, loc>>)
    /\ last' = [op |-> "fault_at", e |-> e, loc |-> loc,
                result |-> LexErr(FromPair(<<e, loc>>))]
    /\ UNCHANGED <<errlog, table, calls, unit>>

\* Err(Located::from(e)), or Err(e.into())
Fault ==
  \E e \in ParserError :
    /\ node' = FromValue(e)
    /\ last' = [op |-> "fault", e |-> e, result |-> LexErr(FromValue(e))]
    /\ UNCHANGED <<errlog, table, calls, unit>>

\* Ok(Spanned { node: token, span })
Token ==
  \E token \in Tokens, span \in Spans :
    /\ last' = [op |-> "token", result |-> LexOk(SpannedToken(token, span))]
    /\ UNCHANGED <<node, errlog, table, calls, unit>>

FaultNext ==
  \/ FaultAt
  \/ Fault
  \/ Token

FaultSpec == FaultInit /\ [][FaultNext]_vars

(* ---------------------- lexer results: the claims ---------------------- *)

\* C14 (as stated): a lexer result is a spanned token or a located
\* ParserError, and every located ParserError carries a Span location, never
\* Unknown, Generated, Unique or Hint.
C14_FaultsCarrySpan ==
  /\ last.result.tag \in {"Ok", "Err"}
  /\ last.result.tag = "Err" => last.result.err.location.tag = "Span"

\* C14 (amended): a lexer result is a spanned token or a located
\* ParserError, a value in either case; a located ParserError carries the
\* location it was built with: the given one, a Span when a Span is given,
\* and Unknown when it is built from the bare error.
C14_FaultsAreLocatedValues ==
  /\ last.result.tag \in {"Ok", "Err"}
  /\ last.result.tag = "Ok" <=> last.op = "token"
  /\ last.op = "fault_at" =>
       /\ last.result.err.value = last.e
       /\ last.result.err.location = last.loc
       /\ last.loc.tag = "Span" => last.result.err.location.tag = "Span"
  /\ last.op = "fault" =>
       /\ last.result.err.value = last.e
       /\ last.result.err.location = Unknown

C14_Witness ==
  /\ last.op = "fault_at"
  /\ last.result = LexErr(FromPair(<<MalformedNumberLiteral("x"), Span(<<10, 11>>)>>))
  /\ ~is_fatal(last.result.err.value)

(* ---------------- Definitions and scattered fragments (ast.rs) --------- *)

\* LocatedIdentifier = Located<IdentifierType>, here IdentifierType::Regular.
Ident(name) ==
  FromPair(<<[variant |-> "Regular", name |-> name], Span(<<10, 11>>)>>)

\* ScatteredDefinition::Enumeration(LocatedIdentifier),
\* ScatteredDefinition::EnumerationMember(LocatedIdentifier, LocatedIdentifier)
\* and ScatteredDefinition::End(LocatedIdentifier).
Enumeration(id) ==
  [family |-> "ScatteredDefinition", variant |-> "Enumeration", id |-> Ident(id)]
EnumerationMember(id, member) ==
  [family |-> "ScatteredDefinition", variant |-> "EnumerationMember",
   id |-> Ident(id), member |-> Ident(member)]
End(id) == [family |-> "ScatteredDefinition", variant |-> "End", id |-> Ident(id)]

\* The fragments that are pushed.
Fragments ==
  {Enumeration("Op"), EnumerationMember("Op", "Add"),
   EnumerationMember("Op", "Sub"), End("Op")}

\* Definition::ScatteredDefinition(LocatedScatteredDefinition), located.
ScatteredEntry(fragment) ==
  FromPair(<<[family |-> "Definition", variant |-> "ScatteredDefinition",
              def |-> FromPair(<<fragment, Span(<<10, 11>>)>>)],
             Span(<<10, 11>>)>>)

\* The names of the source units.
UnitNames == {"a.sail", "b.sail"}

\* Definitions(pub Vec<(String, Vec<LocatedDefinition>)>): the groups plus
\* the definitions they hold.
RECURSIVE UnitSize(_)
UnitSize(defs) ==
  IF defs = <<>> THEN 0 ELSE 1 + Len(Head(defs)[2]) + UnitSize(Tail(defs))

\* Vec<LocatedDefinition> == Vec<LocatedDefinition>: same length and equal
\* element by element, in order.
DefinitionVecEq(a, b) ==
  /\ Len(a) = Len(b)
  /\ \A i \in 1 .. Len(a) : LocatedEq(a[i], b[i])

\* (String, Vec<LocatedDefinition>) == (String, Vec<LocatedDefinition>)
GroupEq(g, h) == g[1] = h[1] /\ DefinitionVecEq(g[2], h[2])

\* #[derive(PartialEq)] on Definitions: the Vec of groups, same length and
\* equal element by element, in order.
DefinitionsEqUnordered(a, b) ==
  /\ Len(a) = Len(b)
  /\ \A i \in 1 .. Len(a) : \E j \in 1 .. Len(b) : GroupEq(a[i], b[j])
  /\ \A j \in 1 .. Len(b) : \E i \in 1 .. Len(a) : GroupEq(a[i], b[j])
DefinitionsEq(a, b) ==
  /\ Len(a) = Len(b)
  /\ \A i \in 1 .. Len(a) : GroupEq(a[i], b[i])

\* A sequence with the elements at i and j exchanged.
Swap(seq, i, j) ==
  [k \in 1 .. Len(seq) |-> IF k = i THEN seq[j] ELSE IF k = j THEN seq[i] ELSE seq[k]]

(* ----------------------- Definitions: the actions ---------------------- *)

UnitInit ==
  /\ unit = <<>>
  /\ last = [op |-> "build"]
  /\ node = FromValue(0)
  /\ errlog = <<>>
  /\ table = <<>>
  /\ calls = <<>>

\* definitions.0.push((name, vec![]))
NewGroup ==
  \E name \in UnitNames :
    /\ last.op = "build"
    /\ UnitSize(unit) < MaxUnit
    /\ unit' = Append(unit, <<name, <<>>>>)
    /\ UNCHANGED <<node, last, errlog, table, calls>>

\* definitions.0.last_mut().1.push(entry): a Vec takes any entry.
PushBalancedOnly(fragment) ==
  /\ last.op = "build"
  /\ unit # <<>>
  /\ UnitSize(unit) < MaxUnit
  /\ fragment.variant = "End" =>
       \E i \in 1 .. Len(unit[Len(unit)][2]) :
         unit[Len(unit)][2][i].value.def.value.variant = "Enumeration"
  /\ unit' = [unit EXCEPT ![Len(unit)][2] = Append(@, ScatteredEntry(fragment))]
  /\ UNCHANGED <<node, last, errlog, table, calls>>
Push(fragment) ==
  /\ last.op = "build"
  /\ unit # <<>>
  /\ UnitSize(unit) < MaxUnit
  /\ unit' = [unit EXCEPT ![Len(unit)][2] = Append(@, ScatteredEntry(fragment))]
  /\ UNCHANGED <<node, last, errlog, table, calls>>

PushFragment == \E fragment \in Fragments : Push(fragment)

\* definitions == other, where other is definitions with two groups
\* exchanged.  The comparison ends the run.
CompareGroupsSwapped ==
  \E i \in 1 .. Len(unit), j \in 1 .. Len(unit) :
    /\ last.op = "build"
    /\ last' = [op |-> "defs_eq", rhs |-> Swap(unit, i, j),
                distinct |-> unit[i] # unit[j],
                out |-> DefinitionsEq(unit, Swap(unit, i, j))]
    /\ UNCHANGED <<node, unit, errlog, table, calls>>

\* definitions == other, where other is definitions with two definitions of
\* one group exchanged.
CompareDefinitionsSwapped ==
  \E g \in 1 .. Len(unit) :
    \E i \in 1 .. Len(unit[g][2]), j \in 1 .. Len(unit[g][2]) :
      /\ last.op = "build"
      /\ i < j
      /\ last' = [op |-> "defs_eq",
                  rhs |-> [unit EXCEPT ![g][2] = Swap(@, i, j)],
                  distinct |-> unit[g][2][i] # unit[g][2][j],
                  out |-> DefinitionsEq(unit, [unit EXCEPT ![g][2] = Swap(@, i, j)])]
      /\ UNCHANGED <<node, unit, errlog, table, calls>>

UnitNext ==
  \/ NewGroup
  \/ PushFragment
  \/ CompareGroupsSwapped
  \/ CompareDefinitionsSwapped

UnitSpec == UnitInit /\ [][UnitNext]_vars

(* ------------------------ Definitions: the claims ---------------------- *)

\* The fragments of group g, in order.
FragmentsOf(g) == [i \in 1 .. Len(unit[g][2]) |-> unit[g][2][i].value.def.value]

\* C12: scattered fragments form a flat sequence of
\* Definition::ScatteredDefinition entries keyed only by identifier: every
\* entry holds one fragment whose fields are identifiers, and any fragment
\* can be appended to any sequence, balanced or open.
C12_FlatScatteredSequence ==
  /\ \A g \in 1 .. Len(unit) : \A i \in 1 .. Len(unit[g][2]) :
       LET entry == unit[g][2][i].value
           fragment == entry.def.value
       IN  /\ entry.family = "Definition"
           /\ entry.variant = "ScatteredDefinition"
           /\ fragment.variant \in Variants["ScatteredDefinition"]
           /\ \A field \in DOMAIN fragment \ {"family", "variant"} :
                fragment[field].value.variant = "Regular"
  /\ (last.op = "build" /\ unit # <<>> /\ UnitSize(unit) < MaxUnit) =>
       \A fragment \in Fragments : ENABLED Push(fragment)

C12_Witness ==
  /\ Len(unit) = 1
  /\ FragmentsOf(1) = <<Enumeration("Op"), EnumerationMember("Op", "Add"),
                        EnumerationMember("Op", "Sub"), End("Op")>>

\* C15: order is significant in a Definitions value: it equals another one
\* only if both hold the same groups in the same order with the same
\* definitions in the same order; exchanging two distinct groups, or two
\* distinct definitions of a group, gives an unequal value.
C15_OrderSignificant ==
  last.op = "defs_eq" =>
    /\ last.out <=> (unit = last.rhs)
    /\ last.distinct => ~last.out

C15_Witness ==
  /\ last.op = "defs_eq"
  /\ last.distinct
  /\ Len(unit) = 2
  /\ unit[1][1] = unit[2][1]
  /\ last.rhs[1] = unit[2]
  /\ ~last.out

=============================================================================
